---- MODULE Spec2Model ----
(***************************************************************************)
(* Model of the ford-fulkerson repository:                                 *)
(*   - FordFulkerson.bfs / FordFulkerson.find_max_flow (ford_fulkerson.py) *)
(*     over networkx DiGraph objects,                                      *)
(*   - GraphGenerator.generate_graph (graph_generator.py),                 *)
(*   - the adjacency-matrix Graph of main.py.                              *)
(* The specifications share the variables and the initial state, in which  *)
(* no object exists yet: Spec (find_max_flow), LiveSpec (Spec with weak    *)
(* fairness of the steps of the call), SpecGen (generate_graph) and        *)
(* SpecMatrix (main.py Graph).                                             *)
(***************************************************************************)
EXTENDS Integers, Sequences, FiniteSets, TLC

VARIABLES
    heap,            \* the DiGraph objects: heap.graph is self.graph, heap.residual the object made at line 47
    residual_ref,    \* the local variable residual_graph: which object it refers to
    source, sink,    \* arguments of find_max_flow
    pc,              \* position in find_max_flow
    edge_iter,       \* edges the loop of line 53 has still to visit
    path,            \* local variable path (NoPath or a vertex list)
    max_flow,        \* local variable max_flow
    error,           \* exception that left find_max_flow, or NoError
    init_residual,   \* history: value of the residual graph right after lines 46-57
    gen,             \* GraphGenerator fields (num_vertices, edge_probability, min/max_capacity)
    possible_edges,  \* local variable of generate_graph
    gen_graph,       \* local variable G of generate_graph
    gen_pc,          \* position in generate_graph
    gen_error,       \* exception that left generate_graph, or NoError
    m_graph,         \* main.py Graph.graph (V x V matrix)
    m_source, m_sink,\* arguments of Graph.ford_fulkerson
    m_results        \* values returned by the successive Graph.ford_fulkerson calls

vars == <<heap, residual_ref, source, sink, pc, edge_iter, path, max_flow, error, init_residual,
          gen, possible_edges, gen_graph, gen_pc, gen_error,
          m_graph, m_source, m_sink, m_results>>

flowVars == <<heap, residual_ref, source, sink, pc, edge_iter, path, max_flow, error, init_residual>>
genVars == <<gen, possible_edges, gen_graph, gen_pc, gen_error>>
matVars == <<m_graph, m_source, m_sink, m_results>>

----------------------------------------------------------------------------
(* Bounds of the model                                                     *)

\* find_max_flow and Graph.ford_fulkerson: every graph on NumVertices
\* vertices with at most MaxEdges edges and capacities up to MaxCap, next to
\* the fixed networks DiamondGraphs and Scenarios
NumVertices == 2
MaxEdges == 2
MaxCap == 2

\* generate_graph: vertex counts 0..GenMaxVertices, edge probabilities
\* k / ProbDen, min_capacity in 1..GenMaxCap
GenMaxVertices == 3
ProbDen == 4
GenMaxCap == 2

\* number of successive Graph.ford_fulkerson calls on one main.py Graph
MaxCalls == 2

----------------------------------------------------------------------------
(* Python values                                                           *)

\* None as the parent of the source (line 16): a value that is no vertex
NoParent == -1

\* None as the result of bfs (line 40); a found path is never empty
NoPath == <<>>

NoError == "NoError"

\* float("Inf"): larger than every finite flow of the model, absorbing under +
Inf == 1000000

\* F applied to the value of x: x is evaluated once, as Python evaluates an
\* argument or an assignment once, however often F uses it
Let(F(_), x) == CHOOSE r \in {F(v) : v \in {x}} : TRUE

Min(a, b) == IF a <= b THEN a ELSE b

PyAdd(a, b) == IF a = Inf \/ b = Inf THEN Inf ELSE a + b

Range(s) == {s[i] : i \in 1..Len(s)}

\* path[::-1]
Reverse(s) == [i \in 1..Len(s) |-> s[Len(s) + 1 - i]]

----------------------------------------------------------------------------
(* networkx.DiGraph: insertion-ordered node list, insertion-ordered        *)
(* successor lists, and the 'capacity' attribute of every edge             *)

EmptyDiGraph == [nodes |-> <<>>,
                 adj |-> [n \in {} |-> <<>>],
                 cap |-> [e \in {} |-> 0]]

HasNode(G, n) == n \in Range(G.nodes)

HasEdge(G, u, v) == <<u, v>> \in DOMAIN G.cap

AddNode(G, n) ==
    IF HasNode(G, n) THEN G
    ELSE [G EXCEPT !.nodes = Append(@, n),
                   !.adj = [m \in DOMAIN @ \cup {n} |-> IF m = n THEN <<>> ELSE @[m]]]

RECURSIVE AddNodesFrom(_, _)
AddNodesFrom(G, ns) ==
    IF ns = <<>> THEN G
    ELSE Let(LAMBDA G1 : AddNodesFrom(G1, Tail(ns)), AddNode(G, Head(ns)))

\* G.add_edge(u, v, capacity=c): creates missing endpoints, then sets the attribute
AddEdge(G, u, v, c) ==
    [AddNode(AddNode(G, u), v) EXCEPT
        !.adj[u] = IF v \in Range(@) THEN @ ELSE Append(@, v),
        !.cap = [e \in DOMAIN @ \cup {<<u, v>>} |-> IF e = <<u, v>> THEN c ELSE @[e]]]

RECURSIVE EdgesFrom(_, _)
EdgesFrom(G, ns) ==
    IF ns = <<>> THEN <<>>
    ELSE [i \in 1..Len(G.adj[Head(ns)]) |-> <<Head(ns), G.adj[Head(ns)][i]>>]
         \o EdgesFrom(G, Tail(ns))

\* G.edges(): node by node in insertion order, successors in insertion order
Edges(G) == EdgesFrom(G, G.nodes)

NodeSetOf(G) == Range(G.nodes)

----------------------------------------------------------------------------
(* FordFulkerson.bfs                                                       *)

\* lines 27-30: follow parent links back from the sink, then reverse
RECURSIVE PathBack(_, _)
PathBack(parent, u) ==
    IF u = NoParent THEN <<>> ELSE <<u>> \o PathBack(parent, parent[u])

\* ScanNeighbors with the test of line 35 written capacity >= 0
RECURSIVE ScanNeighbors_ZeroCap(_, _, _, _)
ScanNeighbors_ZeroCap(R, u, nbrs, st) ==
    IF nbrs = <<>> THEN st
    ELSE LET v == Head(nbrs) IN
         IF v \notin DOMAIN st.parent /\ R.cap[<<u, v>>] >= 0
         THEN Let(LAMBDA st1 : ScanNeighbors_ZeroCap(R, u, Tail(nbrs), st1),
                  [queue |-> Append(st.queue, v),
                   parent |-> [w \in DOMAIN st.parent \cup {v} |->
                                  IF w = v THEN u ELSE st.parent[w]]])
         ELSE ScanNeighbors_ZeroCap(R, u, Tail(nbrs), st)

\* lines 33-37: scan of the successors of u
RECURSIVE ScanNeighbors(_, _, _, _)
ScanNeighbors(R, u, nbrs, st) ==
    IF nbrs = <<>> THEN st
    ELSE LET v == Head(nbrs) IN
         IF v \notin DOMAIN st.parent /\ R.cap[<<u, v>>] > 0
         THEN Let(LAMBDA st1 : ScanNeighbors(R, u, Tail(nbrs), st1),
                  [queue |-> Append(st.queue, v),
                   parent |-> [w \in DOMAIN st.parent \cup {v} |->
                                  IF w = v THEN u ELSE st.parent[w]]])
         ELSE ScanNeighbors(R, u, Tail(nbrs), st)

\* BfsLoop with line 21 written u = queue.pop(), taking the newest entry
RECURSIVE BfsLoop_Lifo(_, _, _)
BfsLoop_Lifo(R, t, st) ==
    IF st.queue = <<>> THEN [raised |-> NoError, path |-> NoPath]
    ELSE LET u == st.queue[Len(st.queue)]
             rest == [queue |-> SubSeq(st.queue, 1, Len(st.queue) - 1),
                      parent |-> st.parent]
         IN IF u = t
            THEN [raised |-> NoError, path |-> Reverse(PathBack(st.parent, u))]
            ELSE IF ~HasNode(R, u)
                 THEN [raised |-> "NetworkXError", path |-> NoPath]
                 ELSE Let(LAMBDA st1 : BfsLoop_Lifo(R, t, st1),
                          ScanNeighbors(R, u, R.adj[u], rest))

\* lines 20-40: result is [raised, path]
RECURSIVE BfsLoop(_, _, _)
BfsLoop(R, t, st) ==
    IF st.queue = <<>> THEN [raised |-> NoError, path |-> NoPath]
    ELSE LET u == Head(st.queue)
             rest == [queue |-> Tail(st.queue), parent |-> st.parent]
         IN IF u = t
            THEN [raised |-> NoError, path |-> Reverse(PathBack(st.parent, u))]
            ELSE IF ~HasNode(R, u)
                 THEN [raised |-> "NetworkXError", path |-> NoPath]
                 ELSE Let(LAMBDA st1 : BfsLoop(R, t, st1),
                          ScanNeighbors(R, u, R.adj[u], rest))

bfs(R, s, t) ==
    BfsLoop(R, t, [queue |-> <<s>>, parent |-> [w \in {s} |-> NoParent]])

----------------------------------------------------------------------------
(* FordFulkerson.find_max_flow                                             *)

\* line 47 written residual_graph = self.graph
NewDiGraphRef_Alias == "graph"

\* line 47: nx.DiGraph() allocates a new object
NewDiGraphRef == "residual"

\* lines 47-50; h is the heap and ref the object residual_graph refers to
NewResidual(h, ref) ==
    [[h EXCEPT ![ref] = EmptyDiGraph] EXCEPT ![ref] = AddNodesFrom(@, h.graph.nodes)]

\* CopyEdge without the test of line 56
CopyEdge_NoHasEdgeTest(h, ref, u, v) ==
    [[h EXCEPT ![ref] = AddEdge(@, u, v, h.graph.cap[<<u, v>>])]
        EXCEPT ![ref] = AddEdge(@, v, u, 0)]

\* CopyEdge with line 57 written capacity=capacity
CopyEdge_Symmetric(h, ref, u, v) ==
    [[h EXCEPT ![ref] = AddEdge(@, u, v, h.graph.cap[<<u, v>>])]
        EXCEPT ![ref] = IF <<v, u>> \in DOMAIN @.cap THEN @
                        ELSE AddEdge(@, v, u, h.graph.cap[<<u, v>>])]

\* lines 54-57: one iteration of the loop over self.graph.edges(data=True)
CopyEdge(h, ref, u, v) ==
    [[h EXCEPT ![ref] = AddEdge(@, u, v, h.graph.cap[<<u, v>>])]
        EXCEPT ![ref] = IF <<v, u>> \in DOMAIN @.cap THEN @ ELSE AddEdge(@, v, u, 0)]

\* lines 66-71 with line 70 written max(path_flow, capacity)
RECURSIVE PathFlow_Max(_, _, _)
PathFlow_Max(R, p, acc) ==
    IF Len(p) < 2 THEN acc
    ELSE Let(LAMBDA m : PathFlow_Max(R, Tail(p), m),
             IF acc >= R.cap[<<p[1], p[2]>>] THEN acc ELSE R.cap[<<p[1], p[2]>>])

\* lines 66-71 taking the capacity of the first edge for the minimum
PathFlow_FirstEdge(R, p, acc) ==
    IF Len(p) < 2 THEN acc ELSE R.cap[<<p[1], p[2]>>]

\* lines 66-71
RECURSIVE PathFlow(_, _, _)
PathFlow(R, p, acc) ==
    IF Len(p) < 2 THEN acc
    ELSE Let(LAMBDA m : PathFlow(R, Tail(p), m), Min(acc, R.cap[<<p[1], p[2]>>]))

\* lines 77-82 with line 82 written -= path_flow
RECURSIVE UpdateResidual_ReverseMinus(_, _, _)
UpdateResidual_ReverseMinus(R, p, f) ==
    IF Len(p) < 2 THEN R
    ELSE Let(LAMBDA R3 : UpdateResidual_ReverseMinus(R3, Tail(p), f),
             [[R EXCEPT !.cap[<<p[1], p[2]>>] = @ - f]
                 EXCEPT !.cap[<<p[2], p[1]>>] = @ - f])

\* lines 77-82 without line 82
RECURSIVE UpdateResidual_NoReverse(_, _, _)
UpdateResidual_NoReverse(R, p, f) ==
    IF Len(p) < 2 THEN R
    ELSE Let(LAMBDA R3 : UpdateResidual_NoReverse(R3, Tail(p), f),
             [R EXCEPT !.cap[<<p[1], p[2]>>] = @ - f])

\* lines 77-82
RECURSIVE UpdateResidual(_, _, _)
UpdateResidual(R, p, f) ==
    IF Len(p) < 2 THEN R
    ELSE LET u == p[1]
             v == p[2]
             R1 == [R EXCEPT !.cap[<<u, v>>] = @ - f]
             R2 == [R1 EXCEPT !.cap[<<v, u>>] = @ + f]
         IN Let(LAMBDA R3 : UpdateResidual(R3, Tail(p), f), R2)

----------------------------------------------------------------------------
(* Inputs of find_max_flow                                                 *)

Vertices == 0..(NumVertices - 1)

\* the vertices and one value, NumVertices, that is no vertex of InputGraphs
Endpoints == 0..NumVertices

\* capacities of the input graphs, one of them negative
CapValues == (-1)..MaxCap

InjSeqs(S) ==
    {q \in UNION {[1..k -> S] : k \in 0..Cardinality(S)} :
        \A i, j \in 1..Len(q) : i # j => q[i] # q[j]}

\* the edges of successor lists a, where a[u + 1] lists the successors of u
EdgeSet(a) == UNION {{<<u - 1, a[u][i]>> : i \in 1..Len(a[u])} : u \in DOMAIN a}

\* successor lists for the vertices u..NumVertices-1 of a graph without
\* self-loops and with at most budget edges
RECURSIVE AdjLists(_, _)
AdjLists(u, budget) ==
    IF u = NumVertices THEN {<<>>}
    ELSE UNION {{<<q>> \o rest : rest \in AdjLists(u + 1, budget - Len(q))} :
                  q \in {r \in InjSeqs(Vertices \ {u}) : Len(r) <= budget}}

AdjChoices == AdjLists(0, MaxEdges)

RangeSeq(n) == [i \in 1..n |-> i - 1]

\* G = nx.DiGraph(); G.add_nodes_from(range(n)); G.add_edge(u, v, capacity=c) ...
RECURSIVE AddEdgesFrom(_, _)
AddEdgesFrom(G, es) ==
    IF es = <<>> THEN G
    ELSE Let(LAMBDA G1 : AddEdgesFrom(G1, Tail(es)),
             AddEdge(G, Head(es)[1], Head(es)[2], Head(es)[3]))

FromEdgeList(n, es) == AddEdgesFrom(AddNodesFrom(EmptyDiGraph, RangeSeq(n)), es)

MkGraph(a, c) ==
    LET es == EdgesFrom([adj |-> [u \in Vertices |-> a[u + 1]]], RangeSeq(NumVertices))
    IN FromEdgeList(NumVertices, [i \in 1..Len(es) |-> <<es[i][1], es[i][2], c[es[i]]>>])

InputGraphs ==
    UNION {{MkGraph(a, c) : c \in [EdgeSet(a) -> CapValues]} : a \in AdjChoices}

\* the network 0->1, 0->2, 1->2, 1->3, 2->3 with every choice of capacities
DiamondGraphs ==
    {FromEdgeList(4, <<(<<0, 1, c[1]>>), (<<0, 2, c[2]>>), (<<1, 2, c[3]>>),
                       (<<1, 3, c[4]>>), (<<2, 3, c[5]>>)>>) : c \in [1..5 -> CapValues]}

\* spec section 8, scenarios 1 and 3, and a network on which the second
\* shortest path runs over the reverse edge 2 -> 1
Scenario1Graph ==
    FromEdgeList(4, <<(<<0, 1, 3>>), (<<0, 2, 2>>), (<<1, 3, 2>>), (<<2, 3, 3>>)>>)

Scenario3Graph == FromEdgeList(2, <<(<<0, 1, 7>>)>>)

ReverseEdgeGraph ==
    FromEdgeList(6, <<(<<0, 1, 1>>), (<<1, 2, 1>>), (<<2, 5, 1>>), (<<0, 3, 1>>),
                      (<<3, 2, 1>>), (<<1, 4, 1>>), (<<4, 5, 1>>)>>)

\* a network with the paths 0 -> 1 -> 4 and 0 -> 2 -> 3 -> 4 of different lengths
DetourGraph ==
    FromEdgeList(5, <<(<<0, 1, 1>>), (<<0, 2, 2>>), (<<1, 4, 1>>), (<<2, 3, 2>>),
                      (<<3, 4, 2>>)>>)

SelfLoopGraph ==
    FromEdgeList(3, <<(<<0, 0, 2>>), (<<0, 1, 2>>), (<<1, 0, 1>>), (<<1, 2, 1>>)>>)

Scenarios ==
    { [g |-> Scenario1Graph, s |-> 0, t |-> 3],
      [g |-> Scenario3Graph, s |-> 0, t |-> 1],
      [g |-> ReverseEdgeGraph, s |-> 0, t |-> 5],
      [g |-> DetourGraph, s |-> 0, t |-> 4],
      [g |-> SelfLoopGraph, s |-> 0, t |-> 2] }

----------------------------------------------------------------------------
(* State machine of find_max_flow                                          *)

GenIdle ==
    /\ gen = [num_vertices |-> 0, p_num |-> 0, min_capacity |-> 0, max_capacity |-> 0]
    /\ possible_edges = <<>>
    /\ gen_graph = EmptyDiGraph
    /\ gen_pc = "NEW"
    /\ gen_error = NoError

MatIdle ==
    /\ m_graph = <<>>
    /\ m_source = 0
    /\ m_sink = 0
    /\ m_results = <<>>

FlowIdle ==
    /\ heap = [graph |-> EmptyDiGraph, residual |-> EmptyDiGraph]
    /\ residual_ref = "unbound"
    /\ source = 0
    /\ sink = 0
    /\ pc = "NEW"
    /\ edge_iter = <<>>
    /\ path = NoPath
    /\ max_flow = 0
    /\ error = NoError
    /\ init_residual = EmptyDiGraph

Init == FlowIdle /\ GenIdle /\ MatIdle

\* FordFulkerson(g), lines 8-11, and the entry into find_max_flow(s, t)
Call(g, s, t) ==
    /\ heap' = [heap EXCEPT !.graph = g]
    /\ source' = s
    /\ sink' = t
    /\ pc' = "START"
    /\ UNCHANGED <<residual_ref, edge_iter, path, max_flow, error, init_residual, genVars, matVars>>

CallAny ==
    /\ pc = "NEW"
    /\ \/ \E g \in InputGraphs, s \in Endpoints, t \in Endpoints : Call(g, s, t)
       \/ \E g \in DiamondGraphs : Call(g, 0, 3)
       \/ \E sc \in Scenarios : Call(sc.g, sc.s, sc.t)

\* lines 46-50 and the start of the iteration of line 53
Allocate ==
    /\ pc = "START"
    /\ residual_ref' = NewDiGraphRef
    /\ heap' = NewResidual(heap, NewDiGraphRef)
    /\ edge_iter' = Edges(heap'.graph)
    /\ pc' = "COPYING"
    /\ UNCHANGED <<source, sink, path, max_flow, error, init_residual, genVars, matVars>>

\* lines 53-57, one iteration
CopyNextEdge ==
    /\ pc = "COPYING"
    /\ edge_iter # <<>>
    /\ heap' = CopyEdge(heap, residual_ref, Head(edge_iter)[1], Head(edge_iter)[2])
    /\ edge_iter' = Tail(edge_iter)
    /\ UNCHANGED <<residual_ref, source, sink, pc, path, max_flow, error, init_residual,
                   genVars, matVars>>

\* end of the loop of line 53, and line 60
StartLoop ==
    /\ pc = "COPYING"
    /\ edge_iter = <<>>
    /\ max_flow' = 0
    /\ init_residual' = heap[residual_ref]
    /\ pc' = "SEARCHING"
    /\ UNCHANGED <<heap, residual_ref, source, sink, edge_iter, path, error, genVars, matVars>>

\* lines 63 and 85, and the loop test of line 64
Search ==
    /\ pc = "SEARCHING"
    /\ \E r \in {bfs(heap[residual_ref], source, sink)} :
        /\ path' = r.path
        /\ error' = r.raised
        /\ pc' = IF r.raised # NoError THEN "ERROR"
                 ELSE IF r.path = NoPath THEN "DONE"
                 ELSE "AUGMENTING"
    /\ UNCHANGED <<heap, residual_ref, source, sink, edge_iter, max_flow, init_residual,
                   genVars, matVars>>

\* lines 65-82
Augment ==
    /\ pc = "AUGMENTING"
    /\ \E path_flow \in {PathFlow(heap[residual_ref], path, Inf)} :
        /\ max_flow' = PyAdd(max_flow, path_flow)
        /\ heap' = [heap EXCEPT ![residual_ref] = UpdateResidual(@, path, path_flow)]
    /\ pc' = "SEARCHING"
    /\ UNCHANGED <<residual_ref, source, sink, edge_iter, path, error, init_residual,
                   genVars, matVars>>

Next == CallAny \/ Allocate \/ CopyNextEdge \/ StartLoop \/ Search \/ Augment

Spec == Init /\ [][Next]_vars

Run == Allocate \/ CopyNextEdge \/ StartLoop \/ Search \/ Augment

\* find_max_flow is synchronous and single-threaded: once entered, its next
\* step is always taken
LiveSpec == Init /\ [][Next]_vars /\ WF_vars(Run)

----------------------------------------------------------------------------
(* GraphGenerator                                                          *)

\* int(x) for x = a / b with b > 0: truncation toward zero
Trunc(a, b) == IF a >= 0 THEN a \div b ELSE -((-a) \div b)

\* seq[:k]
SliceTo(seq, k) ==
    LET n == Len(seq)
        stop == IF k < 0 THEN (IF n + k < 0 THEN 0 ELSE n + k)
                ELSE (IF k > n THEN n ELSE k)
    IN SubSeq(seq, 1, stop)

\* lines 28-45 without the test of lines 37-38
PossibleEdges_NoSourceSkip(n) ==
    IF n <= 0 THEN <<>>
    ELSE LET snk == n - 1
             pairs == [k \in 1..(n * n) |-> <<(k - 1) \div n, (k - 1) % n>>]
             Keep(e) == e[1] # e[2] /\ e[1] # snk
         IN SelectSeq(pairs, Keep)

\* lines 28-45: the pairs (u, v) in the order of the two nested loops
PossibleEdges(n) ==
    IF n <= 0 THEN <<>>
    ELSE LET src == 0
             snk == n - 1
             pairs == [k \in 1..(n * n) |-> <<(k - 1) \div n, (k - 1) % n>>]
             Keep(e) == e[1] # e[2] /\ e[2] # src /\ e[1] # snk
         IN SelectSeq(pairs, Keep)

\* random.shuffle: every order of the list is a possible outcome
RECURSIVE Orders(_)
Orders(S) ==
    IF S = {} THEN {<<>>}
    ELSE UNION {{<<x>> \o q : q \in Orders(S \ {x})} : x \in S}

\* line 51 written round(...): to nearest, halves up
NumEdgesToAdd_Round(count, p_num) == Trunc(2 * count * p_num + ProbDen, 2 * ProbDen)

\* line 51; the probability is p_num / ProbDen
NumEdgesToAdd(count, p_num) == Trunc(count * p_num, ProbDen)

\* the edge probabilities of the model, some below 0 and some above 1
ProbNums == (-2)..(ProbDen + 1)

\* GraphGenerator(n, p, lo, hi), lines 7-12
GenNew(n, p_num, lo, hi) ==
    /\ gen_pc = "NEW"
    /\ gen' = [num_vertices |-> n, p_num |-> p_num, min_capacity |-> lo, max_capacity |-> hi]
    /\ gen_pc' = "READY"
    /\ UNCHANGED <<possible_edges, gen_graph, gen_error, flowVars, matVars>>

\* max_capacity is min_capacity (as in scenario 5 of the spec) or one less,
\* an empty range
GenNewAny ==
    \E n \in 0..GenMaxVertices, p_num \in ProbNums, lo \in 1..GenMaxCap :
        \E hi \in {lo - 1, lo} : GenNew(n, p_num, lo, hi)

\* generate_graph, lines 17-45
Candidates ==
    /\ gen_pc = "READY"
    /\ gen_graph' = AddNodesFrom(EmptyDiGraph, RangeSeq(gen.num_vertices))
    /\ possible_edges' = PossibleEdges(gen.num_vertices)
    /\ gen_pc' = "CANDIDATES"
    /\ UNCHANGED <<gen, gen_error, flowVars, matVars>>

\* line 48
Shuffle ==
    /\ gen_pc = "CANDIDATES"
    /\ possible_edges' \in Orders(Range(possible_edges))
    /\ gen_pc' = "SHUFFLED"
    /\ UNCHANGED <<gen, gen_graph, gen_error, flowVars, matVars>>

\* lines 51-61: the loop draws one capacity per selected edge; randint raises
\* ValueError on an empty range
AddEdges ==
    /\ gen_pc = "SHUFFLED"
    /\ LET sel == SliceTo(possible_edges, NumEdgesToAdd(Len(possible_edges), gen.p_num))
       IN IF sel # <<>> /\ gen.min_capacity > gen.max_capacity
          THEN /\ gen_error' = "ValueError"
               /\ gen_pc' = "ERROR"
               /\ UNCHANGED <<gen_graph, possible_edges>>
          ELSE /\ \E caps \in [1..Len(sel) -> gen.min_capacity..gen.max_capacity] :
                     gen_graph' = AddEdgesFrom(gen_graph,
                         [i \in 1..Len(sel) |-> <<sel[i][1], sel[i][2], caps[i]>>])
               /\ gen_pc' = "RETURNED"
               /\ possible_edges' = <<>>
               /\ UNCHANGED gen_error
    /\ UNCHANGED <<gen, flowVars, matVars>>

NextGen == GenNewAny \/ Candidates \/ Shuffle \/ AddEdges

SpecGen == Init /\ [][NextGen]_vars

----------------------------------------------------------------------------
(* main.py: class Graph over a V x V capacity matrix                       *)

\* Graph(V), lines 9-11
ZeroMatrix(V) == [i \in 0..(V - 1) |-> [j \in 0..(V - 1) |-> 0]]

\* Graph.add_edge, lines 13-14
MAddEdge(M, u, v, c) == [M EXCEPT ![u][v] = c]

\* lines 36-45: the scan of row u from column ind on
RECURSIVE MScanRow(_, _, _, _, _)
MScanRow(M, u, t, ind, st) ==
    IF ind \notin DOMAIN M THEN st
    ELSE IF st.visited[ind] = FALSE /\ M[u][ind] > 0
         THEN LET st1 == [queue |-> Append(st.queue, ind),
                          visited |-> [st.visited EXCEPT ![ind] = TRUE],
                          parent |-> [st.parent EXCEPT ![ind] = u],
                          found |-> (ind = t)]
              IN IF ind = t THEN st1
                 ELSE Let(LAMBDA st2 : MScanRow(M, u, t, ind + 1, st2), st1)
         ELSE MScanRow(M, u, t, ind + 1, st)

\* lines 28-49
RECURSIVE MBfsLoop(_, _, _)
MBfsLoop(M, t, st) ==
    IF st.queue = <<>> \/ st.found THEN st
    ELSE Let(LAMBDA st1 : MBfsLoop(M, t, st1),
             MScanRow(M, Head(st.queue), t, 0, [st EXCEPT !.queue = Tail(@)]))

\* Graph.bfs(s, t, parent), lines 16-49: result is [found, parent]
MBfs(M, s, t, parent) ==
    MBfsLoop(M, t, [queue |-> <<s>>,
                    visited |-> [i \in DOMAIN M |-> i = s],
                    parent |-> parent,
                    found |-> FALSE])

\* lines 66-69
RECURSIVE MPathFlow(_, _, _, _, _)
MPathFlow(M, parent, src, v, acc) ==
    IF v = src THEN acc
    ELSE MPathFlow(M, parent, src, parent[v], Min(acc, M[parent[v]][v]))

\* lines 76-81
RECURSIVE MUpdate(_, _, _, _, _)
MUpdate(M, parent, src, v, f) ==
    IF v = src THEN M
    ELSE LET u == parent[v]
             M1 == [M EXCEPT ![u][v] = @ - f]
             M2 == [M1 EXCEPT ![v][u] = @ + f]
         IN Let(LAMBDA M3 : MUpdate(M3, parent, src, u, f), M2)

\* lines 60-81: the while loop; result is [graph, max_flow]
RECURSIVE MLoop(_, _, _, _, _)
MLoop(M, s, t, parent, flow) ==
    LET r == MBfs(M, s, t, parent) IN
        IF ~r.found THEN [graph |-> M, max_flow |-> flow]
        ELSE LET f == MPathFlow(M, r.parent, s, t, Inf)
             IN Let(LAMBDA M1 : MLoop(M1, s, t, r.parent, PyAdd(flow, f)),
                    MUpdate(M, r.parent, s, t, f))

\* Graph.ford_fulkerson, lines 52-83
ford_fulkerson(M, s, t) == MLoop(M, s, t, [i \in DOMAIN M |-> -1], 0)

RECURSIVE MAddEdges(_, _)
MAddEdges(M, es) ==
    IF es = <<>> THEN M
    ELSE Let(LAMBDA M1 : MAddEdges(M1, Tail(es)),
             MAddEdge(M, Head(es)[1], Head(es)[2], Head(es)[3]))

\* the network of DiamondGraphs as a matrix, positive capacities
DiamondMatrices ==
    {MAddEdges(ZeroMatrix(4), <<(<<0, 1, c[1]>>), (<<0, 2, c[2]>>), (<<1, 2, c[3]>>),
                               (<<1, 3, c[4]>>), (<<2, 3, c[5]>>)>>) : c \in [1..5 -> 1..MaxCap]}

\* matrices built as generate_random_graph builds them (lines 135-141):
\* entries off the diagonal, positive capacities
InputMatrices ==
    UNION {{MAddEdges(ZeroMatrix(NumVertices),
                [i \in 1..Len(Edges(g)) |->
                    <<Edges(g)[i][1], Edges(g)[i][2], c[Edges(g)[i]]>>]) :
              c \in [DOMAIN g.cap -> 1..MaxCap]} :
           g \in {MkGraph(a, [e \in EdgeSet(a) |-> 1]) : a \in AdjChoices}}

\* g = Graph(V); g.add_edge(...) ...; the arguments of the calls to come
MatNew(M, s, t) ==
    /\ m_graph' = M
    /\ m_source' = s
    /\ m_sink' = t
    /\ UNCHANGED <<m_results, flowVars, genVars>>

MatNewAny ==
    /\ m_graph = <<>>
    /\ \/ \E M \in InputMatrices, s \in Vertices, t \in Vertices : MatNew(M, s, t)
       \/ \E M \in DiamondMatrices : MatNew(M, 0, 3)

\* one call g.ford_fulkerson(source, sink)
MatCall ==
    /\ m_graph # <<>>
    /\ Len(m_results) < MaxCalls
    /\ \E r \in {ford_fulkerson(m_graph, m_source, m_sink)} :
        /\ m_graph' = r.graph
        /\ m_results' = Append(m_results, r.max_flow)
    /\ UNCHANGED <<m_source, m_sink, flowVars, genVars>>

NextMatrix == MatNewAny \/ MatCall

SpecMatrix == Init /\ [][NextMatrix]_vars

----------------------------------------------------------------------------
(* Properties of find_max_flow                                             *)

ValidEndpoints ==
    /\ source # sink
    /\ source \in NodeSetOf(heap.graph)
    /\ sink \in NodeSetOf(heap.graph)

NonNegative(G) == \A e \in DOMAIN G.cap : G.cap[e] >= 0

ValidInput == ValidEndpoints /\ NonNegative(heap.graph)

RECURSIVE SumCaps(_, _)
SumCaps(G, es) ==
    IF es = {} THEN 0
    ELSE LET e == CHOOSE x \in es : TRUE IN G.cap[e] + SumCaps(G, es \ {e})

\* total capacity of the edges leaving the vertex set S
CutCapacity(G, S) ==
    SumCaps(G, {e \in DOMAIN G.cap : e[1] \in S /\ e[2] \notin S})

MinCut(G, s, t) ==
    LET cuts == {CutCapacity(G, S \cup {s}) : S \in SUBSET (NodeSetOf(G) \ {s, t})}
    IN CHOOSE m \in cuts : \A c \in cuts : m <= c

Residual == heap[residual_ref]

\* C1: for non-negative integer capacities and distinct source and sink of
\* the graph, the value find_max_flow returns is the capacity of a minimum
\* source/sink cut of the input graph.
Thm_C1 ==
    (pc = "DONE" /\ ValidInput) => max_flow = MinCut(heap.graph, source, sink)

\* the call on scenario 1 of the spec has returned 4
Wit_C1 ==
    /\ pc = "DONE"
    /\ heap.graph = Scenario1Graph
    /\ source = 0 /\ sink = 3
    /\ max_flow = 4

\* C2: from initialization on, residual(u,v) + residual(v,u) keeps the
\* value it had right after initialization, for every pair with an entry.
Thm_C2 ==
    pc \in {"SEARCHING", "AUGMENTING", "DONE", "ERROR"} =>
        \A e \in DOMAIN Residual.cap :
            Residual.cap[e] + Residual.cap[<<e[2], e[1]>>]
                = init_residual.cap[e] + init_residual.cap[<<e[2], e[1]>>]

\* an augmentation has changed the residual graph
Wit_C2 ==
    /\ pc = "SEARCHING"
    /\ max_flow > 0
    /\ Residual # init_residual

\* C3: on valid input the loop reaches DONE, and the total flow never
\* decreases on the way.
Thm_C3 ==
    /\ (pc = "START" /\ ValidInput) ~> (pc = "DONE")
    /\ [][ValidInput => max_flow' >= max_flow]_vars

\* the loop has ended on the network that needs a second, longer augmenting path
Wit_C3 ==
    /\ pc = "DONE"
    /\ heap.graph = ReverseEdgeGraph
    /\ max_flow = 2

\* C4 (as claimed): with source = sink, or an endpoint that is no vertex,
\* the call ends in InvalidEndpoints: no augmentation, no returned value,
\* no other exception.
CE_C4 ==
    ~ValidEndpoints =>
        /\ pc \notin {"AUGMENTING", "DONE"}
        /\ error \in {NoError, "InvalidEndpoints"}

\* C6: no step of find_max_flow changes self.graph.
Thm_C6 == [][pc # "NEW" => heap'.graph = heap.graph]_vars

\* the call has returned after an augmentation that changed the residual graph
Wit_C6 ==
    /\ pc = "DONE"
    /\ heap.graph = Scenario3Graph
    /\ max_flow = 7
    /\ Residual.cap[<<0, 1>>] = 0

\* C7 (as claimed): with a negative capacity in the graph the call fails
\* with InvalidCapacity during construction: the loop is never entered.
CE_C7 ==
    ~NonNegative(heap.graph) =>
        /\ pc \notin {"SEARCHING", "AUGMENTING", "DONE"}
        /\ error \in {NoError, "InvalidCapacity"}

----------------------------------------------------------------------------
(* Properties of Graph.ford_fulkerson (main.py)                            *)

\* C5 (as claimed): two successive calls on one Graph instance with the
\* same source and sink return the same value.
CE_C5 == Len(m_results) >= 2 => m_results[2] = m_results[1]

----------------------------------------------------------------------------
(* Properties of generate_graph                                            *)

NumEdges(G) == Cardinality(DOMAIN G.cap)

\* the ordered pairs (u, v) with u # v, v not the source, u not the sink
CandidatePairs(n) ==
    {e \in (0..(n - 1)) \X (0..(n - 1)) : e[1] # e[2] /\ e[2] # 0 /\ e[1] # n - 1}

\* Python round(a / b) for a >= 0, b > 0: to nearest, ties to even
RoundDiv(a, b) ==
    LET q == a \div b
        r == a % b
    IN IF 2 * r > b THEN q + 1
       ELSE IF 2 * r < b THEN q
       ELSE IF q % 2 = 0 THEN q ELSE q + 1

ProbInRange == 0 <= gen.p_num /\ gen.p_num <= ProbDen

ValidParameters ==
    /\ gen.num_vertices >= 2
    /\ ProbInRange
    /\ gen.min_capacity <= gen.max_capacity

\* C8 (as claimed): the returned graph has round(p x |candidates|) edges.
CE_C8 ==
    (gen_pc = "RETURNED" /\ gen.num_vertices >= 2 /\ ProbInRange) =>
        NumEdges(gen_graph)
            = RoundDiv(Cardinality(CandidatePairs(gen.num_vertices)) * gen.p_num, ProbDen)

\* C8 (amended): for N >= 2 and p in [0,1] the returned graph has
\* int(p x |candidates|) edges, the product truncated, not rounded.
Thm_C8 ==
    (gen_pc = "RETURNED" /\ gen.num_vertices >= 2 /\ ProbInRange) =>
        NumEdges(gen_graph)
            = (Cardinality(CandidatePairs(gen.num_vertices)) * gen.p_num) \div ProbDen

\* a graph was returned where p x |candidates| = 3 x 3/4 has a fractional
\* part, and it has the truncated number of edges, 2 of the 3 candidates
Wit_C8 ==
    /\ gen_pc = "RETURNED"
    /\ gen.num_vertices = 3
    /\ gen.p_num = 3
    /\ (3 * gen.p_num) % ProbDen # 0
    /\ NumEdges(gen_graph) = 2

IsInjective(q) == \A i, j \in 1..Len(q) : i # j => q[i] # q[j]

\* C9: for N >= 2 the returned graph has exactly the vertices 0..N-1, no
\* self-loop, no edge into vertex 0, no edge out of vertex N-1, and at most
\* one edge per ordered pair.
Thm_C9 ==
    (gen_pc = "RETURNED" /\ gen.num_vertices >= 2) =>
        /\ Len(gen_graph.nodes) = gen.num_vertices
        /\ NodeSetOf(gen_graph) = 0..(gen.num_vertices - 1)
        /\ \A e \in DOMAIN gen_graph.cap :
              e[1] # e[2] /\ e[2] # 0 /\ e[1] # gen.num_vertices - 1
        /\ \A u \in DOMAIN gen_graph.adj : IsInjective(gen_graph.adj[u])
        /\ Len(Edges(gen_graph)) = NumEdges(gen_graph)

\* a graph with every candidate edge was returned
Wit_C9 ==
    /\ gen_pc = "RETURNED"
    /\ gen.num_vertices = 3
    /\ DOMAIN gen_graph.cap = CandidatePairs(3)

\* C10 (as claimed): with N < 2, p outside [0,1] or minCapacity >
\* maxCapacity, generate_graph fails with InvalidParameters and returns no
\* graph.
CE_C10 ==
    (gen_pc # "NEW" /\ ~ValidParameters) =>
        /\ gen_pc # "RETURNED"
        /\ gen_error \in {NoError, "InvalidParameters"}

----------------------------------------------------------------------------
(* Properties of FordFulkerson.bfs and of the augmentation loop            *)

\* the edge (u, v) exists in R with a strictly positive capacity
Positive(R, u, v) == <<u, v>> \in DOMAIN R.cap /\ R.cap[<<u, v>>] > 0

\* the vertices reached from s over at most k strictly positive edges
RECURSIVE ReachWithin(_, _, _)
ReachWithin(R, s, k) ==
    IF k = 0 THEN {s}
    ELSE LET S == ReachWithin(R, s, k - 1)
         IN S \cup {v \in NodeSetOf(R) : \E u \in S : Positive(R, u, v)}

\* number of edges of a shortest positive path from s to t, -1 if there is none
Distance(R, s, t) ==
    LET n == Cardinality(NodeSetOf(R))
    IN IF t \notin ReachWithin(R, s, n) THEN -1
       ELSE CHOOSE k \in 0..n :
              /\ t \in ReachWithin(R, s, k)
              /\ \A j \in 0..(k - 1) : t \notin ReachWithin(R, s, j)

\* p is a path from s to t over strictly positive edges of R
IsPositivePath(R, p, s, t) ==
    /\ Len(p) >= 1
    /\ p[1] = s
    /\ p[Len(p)] = t
    /\ \A i \in 1..(Len(p) - 1) : Positive(R, p[i], p[i + 1])

\* path holds the result of bfs on the current residual graph
BfsReturned == pc \in {"AUGMENTING", "DONE"}

\* C11: for distinct source and sink vertices of the residual graph, bfs
\* returns a path from source to sink over strictly positive residual
\* edges with the least possible number of edges, and returns None exactly
\* when no such path exists.
Thm_C11 ==
    (BfsReturned /\ source # sink /\ {source, sink} \subseteq NodeSetOf(Residual)) =>
        /\ (path = NoPath) <=> (Distance(Residual, source, sink) = -1)
        /\ path # NoPath =>
              /\ IsPositivePath(Residual, path, source, sink)
              /\ Len(path) - 1 = Distance(Residual, source, sink)

\* bfs has returned the two-edge path of the detour network, on which a
\* three-edge path is open as well
Wit_C11 ==
    /\ pc = "AUGMENTING"
    /\ heap.graph = DetourGraph
    /\ path = <<0, 1, 4>>
    /\ IsPositivePath(Residual, <<0, 2, 3, 4>>, source, sink)

\* total capacity of the edges of G leaving v, and of those entering v
OutCapacity(G, v) == SumCaps(G, {e \in DOMAIN G.cap : e[1] = v})

InCapacity(G, v) == SumCaps(G, {e \in DOMAIN G.cap : e[2] = v})

\* the augmentation loop of lines 63-85, or the return of line 89
InLoop == pc \in {"SEARCHING", "AUGMENTING", "DONE"}

\* C12: with non-negative capacities and distinct source and sink, the
\* accumulated flow never exceeds the total capacity leaving the source
\* nor the total capacity entering the sink in the input graph, during
\* the loop and in the returned value.
Thm_C12 ==
    (InLoop /\ source # sink /\ NonNegative(heap.graph)) =>
        /\ max_flow <= OutCapacity(heap.graph, source)
        /\ max_flow <= InCapacity(heap.graph, sink)

\* a call has returned a positive flow that uses all the capacity leaving
\* the source and less than the capacity entering the sink
Wit_C12 ==
    /\ pc = "DONE"
    /\ ValidInput
    /\ max_flow > 0
    /\ max_flow = OutCapacity(heap.graph, source)
    /\ max_flow < InCapacity(heap.graph, sink)

\* R is the residual graph the initialization rule prescribes for G
InitializedFrom(R, G) ==
    /\ NodeSetOf(R) = NodeSetOf(G)
    /\ \A e \in DOMAIN G.cap :
          /\ e \in DOMAIN R.cap
          /\ R.cap[e] = G.cap[e]
          /\ <<e[2], e[1]>> \notin DOMAIN G.cap =>
                /\ <<e[2], e[1]>> \in DOMAIN R.cap
                /\ R.cap[<<e[2], e[1]>>] = 0

\* C13: the step that ends the construction of the residual graph leaves
\* residual(u,v) = cap for every edge (u, v, cap) of the capacity graph and
\* residual(v,u) = 0 where the capacity graph has no edge (v,u); with both
\* directions in the capacity graph each keeps its own capacity.
Thm_C13 ==
    [][(pc = "COPYING" /\ pc' = "SEARCHING") =>
          InitializedFrom(heap'[residual_ref'], heap'.graph)]_vars

\* construction has just ended for a graph holding 0 -> 1 and 1 -> 0 with
\* different capacities, and the residual graph holds both of them
Wit_C13 ==
    /\ pc = "SEARCHING"
    /\ path = NoPath
    /\ max_flow = 0
    /\ {<<0, 1>>, <<1, 0>>} \subseteq DOMAIN heap.graph.cap
    /\ heap.graph.cap[<<0, 1>>] = 2
    /\ heap.graph.cap[<<1, 0>>] = 1
    /\ Residual.cap[<<0, 1>>] = 2
    /\ Residual.cap[<<1, 0>>] = 1

\* the bottleneck of the path found, and the residual graph after the
\* first k iterations of the update loop of lines 77-82
Bottleneck == PathFlow(Residual, path, Inf)

UpdatedUpTo(k) == UpdateResidual(Residual, SubSeq(path, 1, k + 1), Bottleneck)

\* C14: with non-negative capacities every residual capacity is >= 0 in
\* every state of the augmentation loop, the states between two iterations
\* of the update loop included: the path found by bfs visits no vertex
\* twice, and the bottleneck subtracted is strictly positive and no larger
\* than the residual capacity of any edge of the path.
Thm_C14 ==
    (InLoop /\ NonNegative(heap.graph)) =>
        /\ NonNegative(Residual)
        /\ pc = "AUGMENTING" =>
              /\ IsInjective(path)
              /\ Bottleneck > 0
              /\ \A i \in 1..(Len(path) - 1) :
                    /\ Bottleneck <= Residual.cap[<<path[i], path[i + 1]>>]
                    /\ NonNegative(UpdatedUpTo(i))

\* an augmentation along 0 -> 1 -> 3 of scenario 1 has subtracted the
\* bottleneck 2, leaving 1 on the edge 0 -> 1 and 0 on the edge 1 -> 3
Wit_C14 ==
    /\ pc = "SEARCHING"
    /\ heap.graph = Scenario1Graph
    /\ path = <<0, 1, 3>>
    /\ max_flow = 2
    /\ Residual.cap[<<0, 1>>] = 1
    /\ Residual.cap[<<1, 3>>] = 0
    /\ Residual.cap[<<3, 1>>] = 2

\* f(u,v) = residual(u,v) right after initialization - residual(u,v) now
NetFlow == [cap |-> [e \in DOMAIN Residual.cap |-> init_residual.cap[e] - Residual.cap[e]]]

\* the sum of f(v,w) over all w, and the sum of f(w,v) over all w
NetOut(v) == SumCaps(NetFlow, {e \in DOMAIN NetFlow.cap : e[1] = v})

NetIn(v) == SumCaps(NetFlow, {e \in DOMAIN NetFlow.cap : e[2] = v})

\* C15: with distinct source and sink, after every augmentation the net
\* flow out of every vertex other than source and sink sums to 0, and the
\* net flow out of the source equals the accumulated flow, which equals the
\* net flow into the sink.
Thm_C15 ==
    (InLoop /\ source # sink) =>
        /\ \A v \in NodeSetOf(Residual) \ {source, sink} : NetOut(v) = 0
        /\ source \in NodeSetOf(Residual) => NetOut(source) = max_flow
        /\ sink \in NodeSetOf(Residual) => NetIn(sink) = max_flow

\* both augmentations of the network of ReverseEdgeGraph are done: the
\* second one has cancelled the flow of the first on the edge 1 -> 2
Wit_C15 ==
    /\ pc = "DONE"
    /\ heap.graph = ReverseEdgeGraph
    /\ max_flow = 2
    /\ NetFlow.cap[<<1, 2>>] = 0
    /\ NetFlow.cap[<<0, 3>>] = 1
    /\ NetFlow.cap[<<3, 0>>] = -1
    /\ NetOut(0) = 2

====
